---- MODULE Spec2Model ----
(***************************************************************************)
(* Model of pynetgear (src/pynetgear/__init__.py): the session state       *)
(* machine of class Netgear (login, login_v2, login_v1, _get_headers,      *)
(* _make_request), driven by a nondeterministic transport.                 *)
(*                                                                         *)
(* The calls are synchronous and nest (login -> login_v2 -> _make_request  *)
(* -> login ...), so the control state is a call stack of activation       *)
(* frames; one action is one straight-line piece of a function between     *)
(* two calls or transport exchanges.                                       *)
(***************************************************************************)
EXTENDS Integers, Sequences, FiniteSets, TLC

\* ------------------------------------------------------------------ bounds
\* Depth of the call stack (frames of _make_request and login) at which the
\* interpreter gives up with RecursionError.
MaxDepth == 5

\* ------------------------------------------------------------------ values
\* Python None.
None == "None"
\* The value True that login_v1 stores in self.cookie.
FlagAuth == "True"
\* Non-empty values of the Set-Cookie response header.
Tokens == {"t1", "t2"}
\* A request-header map without a "Cookie" entry.
NoHeader == "NoHeader"

\* Literal <ResponseCode>...</ResponseCode> substrings a body may contain.
Markers == {"000", "401"}
Resp(status, codes, setCookie) ==
  [status |-> status, codes |-> codes, setCookie |-> setCookie]
\* The responses of requests.post: status_code, the markers found in text,
\* and headers['Set-Cookie'] (None when the header is absent).  One or more
\* responses of each class the code tells apart: valid with and without a
\* session token, unauthorized by status and by marker, a body with both
\* markers, and neither valid nor unauthorized.
Responses ==
  {Resp(200, {"000"}, c) : c \in Tokens \cup {None}} \cup
  {Resp(401, {}, None), Resp(200, {"401"}, None), Resp(200, Markers, None),
   Resp(500, {}, None), Resp(200, {}, None)}

\* The outcome of a requests.post that raises
\* requests.exceptions.RequestException instead of returning a response.
Fault == [status |-> -1, codes |-> {}, setCookie |-> None]

\* _is_valid_response
IsValidResponse(resp) == resp.status = 200 /\ "000" \in resp.codes

\* _is_unauthorized_response
IsUnauthorizedResponse(resp) == resp.status = 401 \/ "401" \in resp.codes

\* Python truthiness of self.cookie (None is false; True and non-empty
\* strings are true).
Truthy(c) == c # None

\* _get_headers: the Cookie header is added when need_auth and the cookie is
\* a str.
GetHeaders(c, need_auth) == IF need_auth /\ c \in Tokens THEN c ELSE NoHeader

VARIABLES
  cookie,          \* self.cookie
  stack,           \* call stack, innermost activation last
  ret,             \* what the activation that finished last returned
  op,              \* the public operation in progress or finished last
  lastPost,        \* the most recent requests.post and its outcome
  everLoggedIn,    \* some login stored a cookie since __init__
  loginSinceReset, \* some login stored a cookie since __init__ or since the
                   \* last `self.cookie = None`
  text,            \* response.text handed to _find_node, as a token sequence
  outcome,         \* what the public call did with `text`
  payload,         \* the characters inside <NewAttachDevice>
  devices          \* what get_attached_devices made of `payload`

sessionVars == <<cookie, stack, ret, op, lastPost, everLoggedIn, loginSinceReset>>
decodeVars == <<text, outcome, payload, devices>>
vars == <<cookie, stack, ret, op, lastPost, everLoggedIn, loginSinceReset,
          text, outcome, payload, devices>>

NoResp == [status |-> 0, codes |-> {}, setCookie |-> None]

\* Activation record of _make_request(service, method, ..., need_auth).
MrFrame(method, need_auth) ==
  [fn |-> "mr", pc |-> "entry", method |-> method, need_auth |-> need_auth,
   headers |-> NoHeader, req |-> NoResp,
   posts |-> 0, unauth |-> FALSE, relogins |-> 0, fault |-> FALSE,
   preLogin |-> "none", reLogin |-> "none",
   v2ok |-> FALSE, v1tried |-> FALSE, v1ok |-> FALSE]

\* Activation record of login() (with login_v2 and login_v1 inlined).
LoginFrame ==
  [fn |-> "login", pc |-> "entry", method |-> "login", need_auth |-> FALSE,
   headers |-> NoHeader, req |-> NoResp,
   posts |-> 0, unauth |-> FALSE, relogins |-> 0, fault |-> FALSE,
   preLogin |-> "none", reLogin |-> "none",
   v2ok |-> FALSE, v1tried |-> FALSE, v1ok |-> FALSE]

NoFrame == [MrFrame("none", FALSE) EXCEPT !.fn = "none", !.pc = "none"]

NoRet == [kind |-> "none", success |-> FALSE, resp |-> NoResp, value |-> None,
          frame |-> NoFrame]
\* (success, response) returned by _make_request
MrRet(success, resp, f) ==
  [kind |-> "mr", success |-> success, resp |-> resp, value |-> None, frame |-> f]
\* value returned by login()
LoginRet(v, f) ==
  [kind |-> "login", success |-> FALSE, resp |-> NoResp, value |-> v, frame |-> f]
\* RecursionError leaving every activation
RaisedRet(f) ==
  [kind |-> "RecursionError", success |-> FALSE, resp |-> NoResp, value |-> None,
   frame |-> f]

NoPost == [method |-> "none", need_auth |-> FALSE, header |-> NoHeader,
           cookie |-> None, attempt |-> 0, resp |-> NoResp, fault |-> FALSE]

IdleOp == [kind |-> "none", need_auth |-> FALSE, startCookie |-> None,
           nposts |-> 0, nlogins |-> 0, unauth |-> FALSE, relogins |-> 0]

Top == stack[Len(stack)]
Front(s) == SubSeq(s, 1, Len(s) - 1)

\* The caller `f` (already updated) calls a function whose activation is g.
\* Beyond MaxDepth the call raises RecursionError, which no handler in the
\* module catches (they catch RequestException and ValueError only).
Call(f, g) ==
  IF Len(stack) >= MaxDepth
  THEN /\ stack' = <<>>
       /\ ret' = RaisedRet(f)
  ELSE /\ stack' = Append([stack EXCEPT ![Len(stack)] = f], g)
       /\ ret' = NoRet

\* The innermost activation (final record f) returns r to its caller.
Return(r) ==
  /\ stack' = Front(stack)
  /\ ret' = r

\* Netgear.__init__: self.cookie = None, nothing called yet.
SessionInit ==
  /\ cookie = None
  /\ stack = <<>>
  /\ ret = NoRet
  /\ op = IdleOp
  /\ lastPost = NoPost
  /\ everLoggedIn = FALSE
  /\ loginSinceReset = FALSE

Pending == [status |-> "pending", value |-> <<>>, warned |-> FALSE]

\* No response is being decoded.
DecodeIdle ==
  /\ text = <<>>
  /\ outcome = Pending
  /\ payload = <<>>
  /\ devices = Pending

Init == SessionInit /\ DecodeIdle

\* A public call (get_attached_devices, ...) enters _make_request.
StartInvoke ==
  /\ UNCHANGED decodeVars
  /\ stack = <<>>
  /\ \E na \in BOOLEAN :
       /\ stack' = <<MrFrame("call", na)>>
       /\ op' = [IdleOp EXCEPT !.kind = "invoke", !.need_auth = na,
                               !.startCookie = cookie]
  /\ ret' = NoRet
  /\ lastPost' = NoPost
  /\ UNCHANGED <<cookie, everLoggedIn, loginSinceReset>>

\* The public method login() is called directly.
StartLogin ==
  /\ UNCHANGED decodeVars
  /\ stack = <<>>
  /\ stack' = <<LoginFrame>>
  /\ op' = [IdleOp EXCEPT !.kind = "login", !.startCookie = cookie]
  /\ ret' = NoRet
  /\ lastPost' = NoPost
  /\ UNCHANGED <<cookie, everLoggedIn, loginSinceReset>>

\* MrEntry with the test of line 280 reduced to `if need_auth:`.
MrEntry_AlwaysLogin ==
  /\ UNCHANGED decodeVars
  /\ stack # <<>> /\ Top.fn = "mr" /\ Top.pc = "entry"
  /\ IF Top.need_auth
     THEN Call([Top EXCEPT !.pc = "prelogin"], LoginFrame)
     ELSE /\ stack' = [stack EXCEPT ![Len(stack)] =
                         [Top EXCEPT !.pc = "post1",
                                     !.headers = GetHeaders(cookie, Top.need_auth)]]
          /\ ret' = NoRet
  /\ UNCHANGED <<cookie, op, lastPost, everLoggedIn, loginSinceReset>>

\* _make_request, lines 280-284: login first when need_auth and there is no
\* cookie, otherwise build the headers.
MrEntry ==
  /\ UNCHANGED decodeVars
  /\ stack # <<>> /\ Top.fn = "mr" /\ Top.pc = "entry"
  /\ IF Top.need_auth /\ ~Truthy(cookie)
     THEN Call([Top EXCEPT !.pc = "prelogin"], LoginFrame)
     ELSE /\ stack' = [stack EXCEPT ![Len(stack)] =
                         [Top EXCEPT !.pc = "post1",
                                     !.headers = GetHeaders(cookie, Top.need_auth)]]
          /\ ret' = NoRet
  /\ UNCHANGED <<cookie, op, lastPost, everLoggedIn, loginSinceReset>>

\* MrAfterPreLogin without the `return False, None` of line 282.
MrAfterPreLogin_IgnoresLogin ==
  /\ UNCHANGED decodeVars
  /\ stack # <<>> /\ Top.fn = "mr" /\ Top.pc = "prelogin"
  /\ stack' = [stack EXCEPT ![Len(stack)] =
                 [Top EXCEPT !.pc = "post1",
                             !.preLogin = IF Truthy(ret.value) THEN "ok" ELSE "failed",
                             !.headers = GetHeaders(cookie, Top.need_auth)]]
  /\ ret' = NoRet
  /\ UNCHANGED <<cookie, op, lastPost, everLoggedIn, loginSinceReset>>

\* _make_request, lines 281-284: the login of line 281 has returned.
MrAfterPreLogin ==
  /\ UNCHANGED decodeVars
  /\ stack # <<>> /\ Top.fn = "mr" /\ Top.pc = "prelogin"
  /\ IF ~Truthy(ret.value)
     THEN Return(MrRet(FALSE, NoResp, [Top EXCEPT !.pc = "done", !.preLogin = "failed"]))
     ELSE /\ stack' = [stack EXCEPT ![Len(stack)] =
                         [Top EXCEPT !.pc = "post1", !.preLogin = "ok",
                                     !.headers = GetHeaders(cookie, Top.need_auth)]]
          /\ ret' = NoRet
  /\ UNCHANGED <<cookie, op, lastPost, everLoggedIn, loginSinceReset>>

Posted(f, n, x) ==
  [method |-> f.method, need_auth |-> f.need_auth, header |-> f.headers,
   cookie |-> cookie, attempt |-> n,
   resp |-> IF x = Fault THEN NoResp ELSE x, fault |-> (x = Fault)]

\* _make_request, lines 300-323: the first requests.post and what follows
\* it up to the next call.
MrPost1 ==
  /\ UNCHANGED decodeVars
  /\ stack # <<>> /\ Top.fn = "mr" /\ Top.pc = "post1"
  /\ \E x \in Responses \cup {Fault} :
       /\ lastPost' = Posted(Top, 1, x)
       /\ op' = [op EXCEPT !.nposts = @ + 1,
                           !.unauth = @ \/ (Top.method = "call" /\ x # Fault
                                             /\ IsUnauthorizedResponse(x))]
       /\ IF x = Fault
          THEN /\ Return(MrRet(FALSE, NoResp,
                          [Top EXCEPT !.pc = "done", !.posts = 1, !.fault = TRUE]))
               /\ UNCHANGED <<cookie, loginSinceReset>>
          ELSE IF IsUnauthorizedResponse(x)
          THEN /\ cookie' = None
               /\ loginSinceReset' = FALSE
               /\ Call([Top EXCEPT !.pc = "relogin", !.posts = 1, !.req = x,
                                   !.unauth = TRUE, !.relogins = @ + 1],
                       LoginFrame)
          ELSE /\ Return(MrRet(IsValidResponse(x), x,
                          [Top EXCEPT !.pc = "done", !.posts = 1, !.req = x]))
               /\ UNCHANGED <<cookie, loginSinceReset>>
  /\ UNCHANGED everLoggedIn

\* _make_request, lines 310-314: the login of line 310 has returned.
MrAfterReLogin ==
  /\ UNCHANGED decodeVars
  /\ stack # <<>> /\ Top.fn = "mr" /\ Top.pc = "relogin"
  /\ IF Truthy(ret.value)
     THEN /\ stack' = [stack EXCEPT ![Len(stack)] =
                         [Top EXCEPT !.pc = "post2", !.reLogin = "ok"]]
          /\ ret' = NoRet
     ELSE Return(MrRet(FALSE, NoResp, [Top EXCEPT !.pc = "done", !.reLogin = "failed"]))
  /\ UNCHANGED <<cookie, op, lastPost, everLoggedIn, loginSinceReset>>

\* MrPost2 outside the try block: RequestException leaves every activation.
MrPost2_FaultPropagates ==
  /\ UNCHANGED decodeVars
  /\ stack # <<>> /\ Top.fn = "mr" /\ Top.pc = "post2"
  /\ \E x \in Responses \cup {Fault} :
       /\ lastPost' = Posted(Top, 2, x)
       /\ op' = [op EXCEPT !.nposts = @ + 1]
       /\ IF x = Fault
          THEN /\ stack' = <<>>
               /\ ret' = [RaisedRet([Top EXCEPT !.pc = "done", !.posts = 2, !.fault = TRUE])
                            EXCEPT !.kind = "RequestException"]
          ELSE Return(MrRet(IsValidResponse(x), x,
                        [Top EXCEPT !.pc = "done", !.posts = 2, !.req = x]))
  /\ UNCHANGED <<cookie, everLoggedIn, loginSinceReset>>

\* _make_request, lines 311-323: the second requests.post, with the headers
\* built at line 284.
MrPost2 ==
  /\ UNCHANGED decodeVars
  /\ stack # <<>> /\ Top.fn = "mr" /\ Top.pc = "post2"
  /\ \E x \in Responses \cup {Fault} :
       /\ lastPost' = Posted(Top, 2, x)
       /\ op' = [op EXCEPT !.nposts = @ + 1]
       /\ IF x = Fault
          THEN Return(MrRet(FALSE, NoResp,
                        [Top EXCEPT !.pc = "done", !.posts = 2, !.fault = TRUE]))
          ELSE Return(MrRet(IsValidResponse(x), x,
                        [Top EXCEPT !.pc = "done", !.posts = 2, !.req = x]))
  /\ UNCHANGED <<cookie, everLoggedIn, loginSinceReset>>

\* login, line 82, and login_v2, lines 89-93.
LoginEntry ==
  /\ UNCHANGED decodeVars
  /\ stack # <<>> /\ Top.fn = "login" /\ Top.pc = "entry"
  /\ Call([Top EXCEPT !.pc = "v2"], MrFrame("SOAPLogin", FALSE))
  /\ op' = [op EXCEPT !.nlogins = @ + 1,
                      !.relogins = IF op.unauth THEN @ + 1 ELSE @]
  /\ UNCHANGED <<cookie, lastPost, everLoggedIn, loginSinceReset>>

\* login_v2, lines 94-100, then login, lines 83-86, and login_v1, lines
\* 103-109.
LoginAfterV2 ==
  /\ UNCHANGED decodeVars
  /\ stack # <<>> /\ Top.fn = "login" /\ Top.pc = "v2"
  /\ LET stored == ret.success /\ ret.resp.setCookie # None
         c2 == IF stored THEN ret.resp.setCookie ELSE cookie
         v2_result == IF ~ret.success THEN None ELSE c2
         f == [Top EXCEPT !.v2ok = stored]
     IN  /\ cookie' = c2
         /\ everLoggedIn' = (everLoggedIn \/ stored)
         /\ loginSinceReset' = (loginSinceReset \/ stored)
         /\ IF Truthy(v2_result)
            THEN Return(LoginRet(v2_result, [f EXCEPT !.pc = "done"]))
            ELSE Call([f EXCEPT !.pc = "v1", !.v1tried = TRUE],
                      MrFrame("Authenticate", FALSE))
  /\ UNCHANGED <<op, lastPost>>

\* LoginAfterV1 storing None when the v1 request fails.
LoginAfterV1_ClearsOnFailure ==
  /\ UNCHANGED decodeVars
  /\ stack # <<>> /\ Top.fn = "login" /\ Top.pc = "v1"
  /\ LET c1 == IF ret.success THEN FlagAuth ELSE None
     IN  /\ cookie' = c1
         /\ everLoggedIn' = (everLoggedIn \/ ret.success)
         /\ loginSinceReset' = (loginSinceReset \/ ret.success)
         /\ Return(LoginRet(c1, [Top EXCEPT !.pc = "done", !.v1ok = ret.success]))
  /\ UNCHANGED <<op, lastPost>>

\* login_v1, lines 111-114.
LoginAfterV1 ==
  /\ UNCHANGED decodeVars
  /\ stack # <<>> /\ Top.fn = "login" /\ Top.pc = "v1"
  /\ LET c1 == IF ret.success THEN FlagAuth ELSE cookie
     IN  /\ cookie' = c1
         /\ everLoggedIn' = (everLoggedIn \/ ret.success)
         /\ loginSinceReset' = (loginSinceReset \/ ret.success)
         /\ Return(LoginRet(c1, [Top EXCEPT !.pc = "done", !.v1ok = ret.success]))
  /\ UNCHANGED <<op, lastPost>>

Next ==
  \/ StartInvoke
  \/ StartLogin
  \/ MrEntry
  \/ MrAfterPreLogin
  \/ MrPost1
  \/ MrAfterReLogin
  \/ MrPost2
  \/ LoginEntry
  \/ LoginAfterV2
  \/ LoginAfterV1

Spec == Init /\ [][Next]_vars

\* ------------------------------------------------ wire format 1 (decoding)
\* Strings are sequences of characters; an optional value is the empty set
\* (Python None) or a singleton.
Nothing == {}
Some(v) == {v}
ValueOf(o) == CHOOSE v \in o : TRUE

Digits == {"0", "1", "2", "3"}
DigitVal(c) == CASE c = "0" -> 0 [] c = "1" -> 1 [] c = "2" -> 2 [] OTHER -> 3
\* UNKNOWN_DEVICE_ENCODED and UNKNOWN_DEVICE_DECODED, one character each here.
UNKNOWN_DEVICE_ENCODED == "&lt;unknown&gt;"
UNKNOWN_DEVICE_DECODED == "<unknown>"

\* str.strip()
RECURSIVE LStrip(_)
LStrip(s) == IF s # <<>> /\ Head(s) = " " THEN LStrip(Tail(s)) ELSE s
RECURSIVE RStrip(_)
RStrip(s) == IF s # <<>> /\ s[Len(s)] = " " THEN RStrip(SubSeq(s, 1, Len(s) - 1)) ELSE s
Strip(s) == RStrip(LStrip(s))

\* str.replace(UNKNOWN_DEVICE_ENCODED, UNKNOWN_DEVICE_DECODED)
ReplaceUnknown(s) ==
  [i \in DOMAIN s |-> IF s[i] = UNKNOWN_DEVICE_ENCODED THEN UNKNOWN_DEVICE_DECODED ELSE s[i]]

\* str.split(sep): always at least one piece.
RECURSIVE SplitFrom(_, _, _, _, _)
SplitFrom(s, sep, i, cur, acc) ==
  IF i > Len(s) THEN Append(acc, cur)
  ELSE IF s[i] = sep THEN SplitFrom(s, sep, i + 1, <<>>, Append(acc, cur))
  ELSE SplitFrom(s, sep, i + 1, Append(cur, s[i]), acc)
Split(s, sep) == SplitFrom(s, sep, 1, <<>>, <<>>)

\* int(str): surrounding whitespace is ignored, then decimal digits only.
RECURSIVE DecimalValue(_)
DecimalValue(s) ==
  IF s = <<>> THEN 0 ELSE 10 * DecimalValue(SubSeq(s, 1, Len(s) - 1)) + DigitVal(s[Len(s)])
\* _convert(value, int): None when int() raises ValueError.
ConvertInt(s) ==
  LET t == Strip(s)
  IN  IF t # <<>> /\ \A i \in DOMAIN t : t[i] \in Digits
      THEN Some(DecimalValue(t)) ELSE Nothing

\* Device(signal, ip, name, mac, type, link_rate, allow_or_block, None x 4)
Device(signal, ip, name, mac, type, link_rate, allow_or_block) ==
  [signal |-> signal, ip |-> ip, name |-> name, mac |-> mac, type |-> type,
   link_rate |-> link_rate, allow_or_block |-> allow_or_block,
   device_type |-> Nothing, device_model |-> Nothing, ssid |-> Nothing,
   conn_ap_mac |-> Nothing]

\* get_attached_devices, lines 157-183: the body of the loop for one entry;
\* the devices the entry adds (none or one).
DecodeEntry(entry) ==
  LET info == Split(entry, ";")
      allow_or_block == IF Len(info) >= 8 THEN Some(info[8]) ELSE Nothing
      link_type == IF Len(info) >= 7 THEN Some(info[5]) ELSE Nothing
      link_rate == IF Len(info) >= 7 THEN ConvertInt(info[6]) ELSE Nothing
      signal == IF Len(info) >= 7 THEN ConvertInt(info[7]) ELSE Nothing
  IN  IF Len(info) < 4 THEN <<>>
      ELSE <<Device(signal, info[2], info[3], info[4], link_type, link_rate,
                    allow_or_block)>>

RECURSIVE DecodeEntries(_)
DecodeEntries(entries) ==
  IF entries = <<>> THEN <<>>
  ELSE DecodeEntry(Head(entries)) \o DecodeEntries(Tail(entries))

\* node.text of an element: None when the element holds no character data.
NodeText(chars) == IF chars = <<>> THEN Nothing ELSE Some(chars)

Returned(v, w) == [status |-> "returned", value |-> v, warned |-> w]
Raised(e) == [status |-> e, value |-> <<>>, warned |-> FALSE]

\* get_attached_devices, lines 135-185, on the node found by _find_node:
\* the list returned (and whether the count warning was logged), or the
\* exception of `node.text.strip()` on None.
DecodeAttachedDevices(chars) ==
  IF NodeText(chars) = Nothing THEN Raised("AttributeError")
  ELSE
    LET decoded == ReplaceUnknown(Strip(ValueOf(NodeText(chars))))
        split == Split(decoded, "@")
        entry_count == IF Len(split) > 1 THEN ConvertInt(split[1]) ELSE Nothing
        entries == IF Len(split) > 1 THEN Tail(split) ELSE split
    IN  IF decoded = <<>> \/ decoded = <<"0">> THEN Returned(<<>>, FALSE)
        ELSE Returned(DecodeEntries(entries),
                      entry_count # Nothing /\ entry_count # Some(Len(entries)))

\* ---- inputs of the decoding
MaxRecords == 2
MaxFields == 8

RECURSIVE Join(_, _)
Join(pieces, sep) ==
  IF pieces = <<>> THEN <<>>
  ELSE IF Len(pieces) = 1 THEN pieces[1]
  ELSE pieces[1] \o <<sep>> \o Join(Tail(pieces), sep)

RecordKinds == {"digits", "letters", "unknown", "empty"}
\* The i-th field of a record of a kind.
FieldOf(kind, i) ==
  CASE kind = "digits" -> IF i = 6 THEN <<"1", "2">> ELSE <<"3">>
    [] kind = "letters" -> <<"a">>
    [] kind = "unknown" -> IF i = 3 THEN <<UNKNOWN_DEVICE_ENCODED>> ELSE <<"a", "1">>
    [] OTHER -> <<>>
RecordOf(kind, n) == Join([i \in 1..n |-> FieldOf(kind, i)], ";")
Records == {RecordOf(k, n) : k \in RecordKinds, n \in 1..MaxFields}
\* The lists of at most m records.
RecordLists(m) == UNION {[1..n -> Records] : n \in 0..m}
\* What stands in front of the first "@": nothing at all (no "@" either), or
\* a declared count, or something that is not a number.
CountPrefixes == {<<"0">>, <<"1">>, <<"2">>, <<"3">>, <<"a">>, <<>>}
Padding == {<<>>, <<" ">>}
\* The payloads of at most m records.
Payloads(m) ==
  {pad \o Join(rs, "@") \o pad : rs \in RecordLists(m), pad \in Padding} \cup
  {pad \o Join(<<c>> \o rs, "@") \o pad :
      c \in CountPrefixes, rs \in RecordLists(m), pad \in Padding}

DevicesInit ==
  /\ SessionInit
  /\ text = <<>>
  /\ outcome = Pending
  /\ payload \in Payloads(MaxRecords)
  /\ devices = Pending

\* get_attached_devices from line 135 on.
GetAttachedDevices ==
  /\ devices = Pending
  /\ devices' = DecodeAttachedDevices(payload)
  /\ UNCHANGED <<sessionVars, text, outcome, payload>>

DevicesNext == GetAttachedDevices

SpecDevices == DevicesInit /\ [][DevicesNext]_vars

\* ------------------------------------------------ _find_node (parsing)
\* response.text as a sequence of lexical pieces: start and end tags of an
\* envelope element E and of the element N the caller looks for, the whole
\* element <ResponseCode>000</ResponseCode>, a control character of
\* _illegal_unichrs, and a bare "&" (not removed by the filter, not XML).
Pieces == {"<E>", "</E>", "<N>", "</N>", "RC000", "ctl", "&"}
MaxText == 4
\* The texts of at most m pieces.
Texts(m) == UNION {[1..n -> Pieces] : n \in 0..m}

IsStartTag(p) == p \in {"<E>", "<N>"}
IsEndTag(p) == p \in {"</E>", "</N>"}
TagOf(p) == IF p \in {"<E>", "</E>"} THEN "E" ELSE IF p \in {"<N>", "</N>"} THEN "N" ELSE "ResponseCode"

\* _illegal_xml_chars_RE.sub('', response)
Sanitize(t) == SelectSeq(t, LAMBDA p : p # "ctl")

NoTree == [error |-> TRUE, below |-> {}]

\* ET.iterparse over the pieces from position i on: `open` is the path of
\* elements not yet closed, `rootDone` tells that the document element was
\* closed, `below` collects the tags of the elements started inside the
\* document element.  The result is NoTree when the parser raises ParseError.
RECURSIVE ParseFrom(_, _, _, _, _)
ParseFrom(t, i, open, rootDone, below) ==
  IF i > Len(t)
  THEN IF open = <<>> /\ rootDone THEN [error |-> FALSE, below |-> below] ELSE NoTree
  ELSE LET p == t[i] IN
    IF p \in {"ctl", "&"} THEN NoTree
    ELSE IF open = <<>> /\ rootDone THEN NoTree
    ELSE IF IsStartTag(p)
      THEN ParseFrom(t, i + 1, Append(open, TagOf(p)), FALSE,
                     IF open = <<>> THEN below ELSE below \cup {TagOf(p)})
    ELSE IF IsEndTag(p)
      THEN IF open # <<>> /\ open[Len(open)] = TagOf(p)
           THEN ParseFrom(t, i + 1, SubSeq(open, 1, Len(open) - 1),
                          Len(open) = 1, below)
           ELSE NoTree
    ELSE ParseFrom(t, i + 1, open, open = <<>>,
                   IF open = <<>> THEN below ELSE below \cup {TagOf(p)})
Parse(t) == ParseFrom(t, 1, <<>>, FALSE, {})

\* _find_node(response, ".//N"): "ParseError" when iterparse raises,
\* otherwise (success, node found).
FindNode(t) ==
  LET tree == Parse(Sanitize(t))
  IN  IF tree.error THEN Raised("ParseError")
      ELSE IF "N" \notin tree.below THEN Returned(FALSE, FALSE)
      ELSE Returned(TRUE, FALSE)

\* The response of status 200 whose text is t.
ResponseOf(t) ==
  Resp(200, IF \E i \in DOMAIN t : t[i] = "RC000" THEN {"000"} ELSE {}, None)

\* get_attached_devices, lines 124-133 (the same lines of
\* get_attached_devices_2 and get_traffic_meter), once _make_request has the
\* response: None when the response is not valid or the node is not found,
\* otherwise the node goes on to be decoded.
PublicCallOn(t) ==
  IF ~IsValidResponse(ResponseOf(t)) THEN Returned("None", FALSE)
  ELSE LET found == FindNode(t)
       IN  IF found.status # "returned" THEN found
           ELSE IF ~found.value THEN Returned("None", FALSE)
           ELSE Returned("node", FALSE)

ParseInit ==
  /\ SessionInit
  /\ text \in Texts(MaxText)
  /\ outcome = Pending
  /\ payload = <<>>
  /\ devices = Pending

\* A public call handles the response text.
PublicCall ==
  /\ outcome = Pending
  /\ outcome' = PublicCallOn(text)
  /\ UNCHANGED <<sessionVars, text, payload, devices>>

ParseNext == PublicCall

SpecParse == ParseInit /\ [][ParseNext]_vars

\* ------------------------------------------------------------ properties
\* Number of login() activations on the call stack.
LoginDepth == Cardinality({i \in DOMAIN stack : stack[i].fn = "login"})

\* C1: a single invoke ends after a bounded number of POSTs: at most the
\* two logins of one login cycle before the call, the call's POST, the two
\* logins of one re-login cycle and one retried POST; login attempts never
\* nest inside one another and the invoke never ends in RecursionError.
C1_BoundedInvoke ==
  op.kind = "invoke" =>
    /\ LoginDepth <= 1
    /\ op.nposts <= 2 + 1 + 2 + 1
    /\ ret.kind # "RecursionError"

\* C2: once the POST of an invoke has been answered `unauthorized`, the
\* cookie is None when login() starts, login() is called exactly once, and the
\* invoke returns: after a truthy login it has sent its POST exactly once
\* more and returns the classification of that second response together
\* with it; after a falsy login it returns (False, None) with its single
\* POST.
C2_OneReloginOneRetry ==
  (op.kind = "invoke" /\ op.unauth) =>
    /\ op.relogins <= 1
    /\ ret.kind # "RecursionError"
    /\ (Len(stack) = 2 /\ stack[1].pc = "relogin" /\ stack[2].pc = "entry")
         => cookie = None
    /\ \A i \in DOMAIN stack : stack[i].posts <= 2
    /\ (stack = <<>> /\ ret.kind = "mr") =>
         /\ op.relogins = 1
         /\ ret.frame.relogins = 1
         /\ ret.frame.reLogin \in {"ok", "failed"}
         /\ ret.frame.reLogin = "failed" =>
              (ret.frame.posts = 1 /\ ~ret.success /\ ret.resp = NoResp)
         /\ ret.frame.reLogin = "ok" =>
              /\ ret.frame.posts = 2
              /\ lastPost.attempt = 2 /\ lastPost.method = "call"
              /\ lastPost.fault => (~ret.success /\ ret.resp = NoResp)
              /\ ~lastPost.fault =>
                   (ret.success = IsValidResponse(lastPost.resp)
                    /\ ret.resp = lastPost.resp)

\* C3: a POST that raises RequestException makes the _make_request that
\* sent it return (False, None) at once: the activation ends in that very
\* step, normally, and the POST was its last.
C3_FaultIsFailure ==
  [][(op'.nposts = op.nposts + 1 /\ lastPost'.fault) =>
       /\ ret'.kind = "mr" /\ ~ret'.success /\ ret'.resp = NoResp
       /\ stack' = Front(stack)
       /\ ret'.frame.fault /\ ret'.frame.posts = lastPost'.attempt]_vars

\* C3 witness: the retried POST of a public call raised and the call
\* returned failure.
C3_Witness ==
  /\ stack = <<>> /\ ret.kind = "mr" /\ ret.frame.method = "call"
  /\ ret.frame.fault /\ ret.frame.posts = 2 /\ lastPost.fault /\ ~ret.success

\* C4: when the login that _make_request calls because need_auth is set
\* and there is no cookie has returned and the cookie is still None, the
\* next step returns (False, None) and no POST of the call was or is sent.
C4_NoPostWithoutSession ==
  [][(stack # <<>> /\ Top.fn = "mr" /\ Top.pc = "prelogin" /\ cookie = None) =>
       /\ ret'.kind = "mr" /\ ~ret'.success /\ ret'.resp = NoResp
       /\ stack' = Front(stack)
       /\ ret'.frame.posts = 0 /\ lastPost' = lastPost /\ op'.nposts = op.nposts]_vars

\* C4 witness: a public call with need_auth returned failure after the two
\* login POSTs and none of its own.
C4_Witness ==
  /\ stack = <<>> /\ ret.kind = "mr" /\ ret.frame.method = "call"
  /\ ret.frame.need_auth /\ ret.frame.preLogin = "failed" /\ ret.frame.posts = 0
  /\ op.nposts = 2 /\ cookie = None /\ lastPost.method = "Authenticate"

\* C5: login() tries v1 only when v2 produced no session token, and when
\* neither the v2 nor the v1 attempt succeeds it returns None.
C5_LoginFailsUnauthenticated ==
  ret.kind = "login" =>
    /\ ret.frame.v1tried => ~ret.frame.v2ok
    /\ (~ret.frame.v2ok /\ ret.frame.v1tried /\ ~ret.frame.v1ok) => ret.value = None

\* C6: a response that passed the success predicate and cannot be parsed,
\* or lacks the node, makes the public call return None; no exception.
C6_ParseErrorGivesNone ==
  (outcome # Pending /\ IsValidResponse(ResponseOf(text))
     /\ (Parse(Sanitize(text)).error \/ "N" \notin Parse(Sanitize(text)).below))
  => (outcome.status = "returned" /\ outcome.value = "None")

\* The '@'-separated records of a payload: what follows the declared count
\* when there is an "@", the whole payload otherwise.
RecordsOf(chars) ==
  LET split == Split(ReplaceUnknown(Strip(chars)), "@")
  IN  IF Len(split) > 1 THEN Tail(split) ELSE split
HasFourFields(r) == Len(Split(r, ";")) >= 4
\* The payload with its declared count replaced by c.
WithCount(chars, c) ==
  LET split == Split(Strip(chars), "@")
  IN  IF Len(split) > 1 THEN Join(<<c>> \o Tail(split), "@") ELSE chars

DecodedAsClaimed(chars, d) ==
  LET kept == SelectSeq(RecordsOf(chars), HasFourFields)
  IN  /\ d.status = "returned"
      /\ Len(d.value) = Len(kept)
      /\ \A i \in DOMAIN kept :
           LET info == Split(kept[i], ";")
               dev == d.value[i]
           IN  /\ dev.ip = info[2] /\ dev.name = info[3] /\ dev.mac = info[4]
               /\ (dev.type # Nothing \/ dev.link_rate # Nothing \/ dev.signal # Nothing)
                    => Len(info) >= 7
               /\ Len(info) >= 7 => dev.type = Some(info[5])
               /\ dev.allow_or_block # Nothing <=> Len(info) >= 8
               /\ Len(info) >= 8 => dev.allow_or_block = Some(info[8])
      /\ \A c \in CountPrefixes :
           DecodeAttachedDevices(WithCount(chars, c)).value = d.value

\* C7: for every payload get_attached_devices returns one Device for each
\* record of at least 4 fields, in order, ip/name/mac from fields 2-4, link
\* type/rate/signal only from 7 fields on, allow/block only from 8 fields
\* on; the declared count has no influence on the list.
C7_DecodeEveryPayload ==
  devices # Pending => DecodedAsClaimed(payload, devices)

\* C7 for the payloads that hold at least one character (node.text is a
\* str): the decoding is as claimed.
C7_DecodeNonEmptyPayload ==
  (devices # Pending /\ payload # <<>>) => DecodedAsClaimed(payload, devices)

\* C8: every POST carries the Cookie header exactly when need_auth is set
\* and the cookie at the moment of sending is a token, and then carries that
\* token.
C8_HeaderIsCurrentToken ==
  lastPost.attempt > 0 =>
    lastPost.header = IF lastPost.need_auth /\ lastPost.cookie \in Tokens
                      THEN lastPost.cookie ELSE NoHeader

\* C9: an invoke that starts with a cookie and whose POST is not answered
\* `unauthorized` calls no login and leaves the cookie as it was, however
\* the POST ends; the cookie becomes None only in the step that receives an
\* unauthorized answer to a first POST.
C9_SessionReused ==
  /\ [](op.kind = "invoke" /\ Truthy(op.startCookie) /\ ~op.unauth
          => (op.nlogins = 0 /\ cookie = op.startCookie /\ LoginDepth = 0))
  /\ [][(cookie # None /\ cookie' = None) =>
          (op'.nposts = op.nposts + 1 /\ lastPost'.attempt = 1 /\ ~lastPost'.fault
           /\ IsUnauthorizedResponse(lastPost'.resp))]_vars

\* C9 witness: a call made with a FlagAuth session hit a transport fault;
\* no login was attempted and the session is still FlagAuth.
C9_Witness ==
  /\ stack = <<>> /\ op.kind = "invoke" /\ op.need_auth /\ op.startCookie = FlagAuth
  /\ ret.kind = "mr" /\ lastPost.fault /\ op.nposts = 1 /\ op.nlogins = 0
  /\ cookie = FlagAuth

\* C10 as stated: with the cookie None no login has ever succeeded.
C10_NeverLoggedIn == cookie = None => ~everLoggedIn

\* C10 amended: with the cookie None no login has succeeded since the client
\* was created or since the last unauthorized response was detected.
C10_NoLoginSinceReset == cookie = None => ~loginSinceReset

\* C10 witness: a session that was logged in and has been reset.
C10_Witness == cookie = None /\ everLoggedIn /\ ~loginSinceReset /\ stack = <<>>

====
